---------------------------- MODULE Spec2Model ----------------------------
(***************************************************************************)
(* Model of vacances.py: the DateCollection / Care data model and the      *)
(* weekend rotation Care.guess_care_weeks, as driven by main().            *)
(*                                                                         *)
(* A date is a tuple <<year, month, day>>; tuples compare as Python's      *)
(* datetime.date does (year, then month, then day).  A DateCollection is   *)
(* the ordered dict self.dates:                                            *)
(* a sequence of entries [key, val], in insertion order, val being the set  *)
(* of dates of user key.                                                   *)
(***************************************************************************)
EXTENDS Integers, Sequences, FiniteSets, TLC

\* ------------------------------------------------------------------ bounds
\* Largest number of users of the care file.
MaxUsers == 3
\* args.year is one of 2023 .. MaxYear.
MaxYear == 2023
\* --care-start is absent (main() then starts on January 1st) or one of the
\* first MaxStartDay days of December.
MaxStartDay == 10
\* The input files hold at most MaxPre dates together.
MaxPre == 2

\* ------------------------------------------------ datetime.date, calendar
IsLeap(y) == (y % 4 = 0) /\ ((y % 100 # 0) \/ (y % 400 = 0))

DaysInMonth(y, m) ==
    IF m = 2 THEN (IF IsLeap(y) THEN 29 ELSE 28)
    ELSE IF m \in {4, 6, 9, 11} THEN 30 ELSE 31

\* Days of the year before the first day of month m.
DaysBeforeMonth(y, m) ==
    <<0, 31, 59, 90, 120, 151, 181, 212, 243, 273, 304, 334>>[m]
    + (IF m > 2 /\ IsLeap(y) THEN 1 ELSE 0)

DaysBeforeYear(y) ==
    (y - 1) * 365 + ((y - 1) \div 4) - ((y - 1) \div 100) + ((y - 1) \div 400)

\* date.toordinal(): January 1st of year 1 is day 1.
ToOrdinal(d) == DaysBeforeYear(d[1]) + DaysBeforeMonth(d[1], d[2]) + d[3]

\* date.weekday(): Monday is 0, Sunday is 6.
Weekday(d) == (ToOrdinal(d) + 6) % 7

\* Date.is_weekend
IsWeekend(d) == Weekday(d) > 4

\* Date.is_sunday
IsSunday(d) == Weekday(d) = 6

\* calendar.Calendar().itermonthdates(year, month): the month's dates in full
\* weeks, Monday first, padded with the last days of the month before and the
\* first days of the month after.
ItermonthDates(y, m) ==
    LET lead  == Weekday(<<y, m, 1>>)
        dim   == DaysInMonth(y, m)
        trail == (7 - ((lead + dim) % 7)) % 7
        py    == IF m = 1 THEN y - 1 ELSE y
        pm    == IF m = 1 THEN 12 ELSE m - 1
        ny    == IF m = 12 THEN y + 1 ELSE y
        nm    == IF m = 12 THEN 1 ELSE m + 1
        pdim  == DaysInMonth(py, pm)
    IN  [i \in 1..lead |-> <<py, pm, pdim - lead + i>>]
        \o [i \in 1..dim |-> <<y, m, i>>]
        \o [i \in 1..trail |-> <<ny, nm, i>>]

\* ----------------------------------------------------------- DateCollection
Range(sq) == {sq[i] : i \in 1..Len(sq)}

\* DateCollection.users: the keys, in insertion order.
Users(ds) == [i \in 1..Len(ds) |-> ds[i].key]

\* DateCollection.nusers
NUsers(ds) == Len(ds)

\* DateCollection.__getitem__
Item(ds, user) == (CHOOSE e \in Range(ds) : e.key = user).val

\* A wrong date_is_free: only the first user's dates are looked at.
DateIsFree_FirstOnly(ds, date) == date \notin ds[1].val

\* A wrong date_is_free: free as soon as one user does not have the date.
DateIsFree_Any(ds, date) == \E i \in 1..Len(ds) : date \notin ds[i].val

\* DateCollection.date_is_free
DateIsFree(ds, date) == \A i \in 1..Len(ds) : date \notin ds[i].val

\* A wrong date_is_free_weekend: occupancy is not looked at.
DateIsFreeWeekend_WeekendOnly(ds, date) == IsWeekend(date)

\* DateCollection.date_is_free_weekend
DateIsFreeWeekend(ds, date) == IsWeekend(date) /\ DateIsFree(ds, date)

\* A wrong append: the user's dates are replaced by the new date.
Append_Replace(ds, user, date) ==
    [i \in 1..Len(ds) |->
        IF ds[i].key = user THEN [ds[i] EXCEPT !.val = {date}] ELSE ds[i]]

\* DateCollection.append
Append_(ds, user, date) ==
    [i \in 1..Len(ds) |->
        IF ds[i].key = user THEN [ds[i] EXCEPT !.val = @ \cup {date}] ELSE ds[i]]

\* list.index
Index(us, x) ==
    CHOOSE i \in 1..Len(us) : us[i] = x /\ \A j \in 1..(i - 1) : us[j] # x

\* ------------------------------------------------------ Care.guess_care_weeks
\* A wrong first_care check: an unknown name falls back to the first user.
FirstCare_Default(ds, fc) ==
    IF fc \in Range(Users(ds)) THEN fc ELSE Users(ds)[1]

\* Lines 117-120: the outcome of the first_care check; "" is falsy.
FirstCare(ds, fc) ==
    IF fc # ""
    THEN (IF fc \in Range(Users(ds)) THEN fc ELSE "AssertionError")
    ELSE Users(ds)[1]

\* Lines 125-129: users reordered so that first_care comes first.
RotationOrder(ds, fc) ==
    LET us     == Users(ds)
        first  == Index(us, fc)
        others == SelectSeq([i \in 1..Len(us) |-> i], LAMBDA i : i # first)
        order  == <<first>> \o others
    IN  [k \in 1..Len(order) |-> us[order[k]]]

\* range(start.month, 13) ends with December.
LastMonth == 12

\* A wrong comparison with start: date > start.
DateGE_Strict(d, s) ==
    \/ d[1] > s[1]
    \/ d[1] = s[1] /\ d[2] > s[2]
    \/ d[1] = s[1] /\ d[2] = s[2] /\ d[3] > s[3]

\* date >= start: dates compare by year, month, day.
DateGE(d, s) ==
    \/ d[1] > s[1]
    \/ d[1] = s[1] /\ d[2] > s[2]
    \/ d[1] = s[1] /\ d[2] = s[2] /\ d[3] >= s[3]

\* A wrong loop body: the week counter advances before the Sunday is assigned.
LoopBody_CountFirst(ds, wc, rot, s, cm, date) ==
    IF date[2] = cm
    THEN LET wc1 == IF IsSunday(date) THEN wc + 1 ELSE wc
         IN  [dates |-> IF DateGE(date, s) /\ DateIsFreeWeekend(ds, date)
                         THEN Append_(ds, rot[(wc1 % NUsers(ds)) + 1], date)
                         ELSE ds,
              week_counter |-> wc1]
    ELSE [dates |-> ds, week_counter |-> wc]

\* A wrong loop body: the week counter advances only when the Sunday was
\* assigned.
LoopBody_CountAssigned(ds, wc, rot, s, cm, date) ==
    IF date[2] = cm
    THEN LET hit == DateGE(date, s) /\ DateIsFreeWeekend(ds, date)
         IN  [dates |-> IF hit
                         THEN Append_(ds, rot[(wc % NUsers(ds)) + 1], date)
                         ELSE ds,
              week_counter |-> IF IsSunday(date) /\ hit THEN wc + 1 ELSE wc]
    ELSE [dates |-> ds, week_counter |-> wc]

\* Lines 141-147: the body of the inner loop for one date of itermonthdates.
LoopBody(ds, wc, rot, s, cm, date) ==
    IF date[2] = cm
    THEN [dates |-> IF DateGE(date, s) /\ DateIsFreeWeekend(ds, date)
                    THEN Append_(ds, rot[(wc % NUsers(ds)) + 1], date)
                    ELSE ds,
          week_counter |-> IF IsSunday(date) THEN wc + 1 ELSE wc]
    ELSE [dates |-> ds, week_counter |-> wc]

\* ------------------------------------------------------------------- inputs
AllNames == <<"a", "b", "c", "d", "e">>
\* A first_care that names no user.
Unknown == "zz"
\* The reserved key of the holidays file (line 101), written without accents.
PublicKey == "ferie"
\* args.care_start when --care-start is not given.
None == <<>>

\* args.year: the years of the runs.
Years == 2023..MaxYear

YearDates(y) == UNION {{<<y, m, d>> : d \in 1..DaysInMonth(y, m)} : m \in 1..12}

\* The lists itermonthdates yields for the years of the model, computed once.
MonthTable == [y \in Years |-> [m \in 1..12 |-> ItermonthDates(y, m)]]

MonthDates(y, m) == MonthTable[y][m]

\* Values of --care-start.
CareStarts(y) == {None} \cup {<<y, 12, d>> : d \in 1..MaxStartDay}

\* Lines 367-369: care start defaults to January 1st.
CareStart(y, cs) == IF cs = None THEN <<y, 1, 1>> ELSE cs

\* The dates the files may already hold: the Saturday and the Sunday of the
\* first weekend on or after the start, within the year.
Pool(s) ==
    {dt \in YearDates(s[1]) :
        /\ ToOrdinal(dt) - ToOrdinal(s) \in 0..6
        /\ Weekday(dt) \in {5, 6}}

\* The earliest dates of a set of dates (none when it is empty).
Earliest(D) == {d \in D : \A e \in D : ToOrdinal(d) <= ToOrdinal(e)}

\* An entry of a file is <<file, key, date>>.  The care file may hold dates of
\* its first and last users, the holidays file the first date of the pool for
\* its first user and for the public key, the care file of a second
\* collection dates of its last user.
Entries(files, us, pool) ==
    LET slots == ({"care"} \X {us[1], us[Len(us)]} \X pool)
                 \cup ({"holidays"} \X {us[1], PublicKey} \X Earliest(pool))
                 \cup ({"other"} \X {us[Len(us)]} \X pool)
    IN  {S \in SUBSET {x \in slots : x[1] \in files} : Cardinality(S) <= MaxPre}

\* read_date_yaml: one set of dates per user, in file order.
ReadDateYaml(file, ks, S) ==
    [i \in 1..Len(ks) |->
        [key |-> ks[i],
         val |-> {e[3] : e \in {x \in S : x[1] = file /\ x[2] = ks[i]}}]]

\* The keys of the holidays file: the users, and the public key when the file
\* has public holidays.
HolidayKeys(us, S) ==
    IF \E x \in S : x[1] = "holidays" /\ x[2] = PublicKey
    THEN us \o <<PublicKey>> ELSE us

\* -------------------------------------------------------------------- state
VARIABLES
    pc,             \* where the run is: main, call, scan, returned, done, failed
    year,           \* args.year
    care_start,     \* args.care_start
    first_care,     \* the first_care argument of guess_care_weeks
    dates,          \* care.dates
    before,         \* care.dates as read from the care file
    holidays_file,  \* the mapping read from the holidays file
    holidays,       \* Holidays.dates
    public,         \* Holidays.public
    start,          \* the start argument of guess_care_weeks
    users,          \* guess_care_weeks: the reordered users (line 129)
    week_counter,   \* guess_care_weeks: week_counter
    current_month,  \* guess_care_weeks: current_month
    idx,            \* position of the inner loop in cal.itermonthdates(...)
    calls,          \* number of calls of guess_care_weeks so far
    returned_dates, \* care.dates when guess_care_weeks first returned
    other,          \* the dates of a second Care collection, scanned alongside
    other_before,   \* the second collection as read
    other_counter   \* week_counter of the second collection's call

vars == <<pc, year, care_start, first_care, dates, before, holidays_file,
          holidays, public, start, users, week_counter, current_month, idx,
          calls, returned_dates, other, other_before, other_counter>>

locals == <<users, week_counter, current_month, idx>>
inputs == <<year, care_start, before, holidays_file, other_before>>
second == <<other, other_counter>>

\* The state when main() has parsed its arguments and read the files named
\* in `files`.
InitWith(files) ==
    \E y \in Years, n \in 1..MaxUsers :
      \E cs \in CareStarts(y) :
        LET us == SubSeq(AllNames, 1, n) IN
        \E S \in Entries(files, us, Pool(CareStart(y, cs))),
           fc \in Range(us) \cup {"", Unknown} :
            /\ pc = "main"
            /\ year = y
            /\ care_start = cs
            /\ first_care = fc
            /\ dates = ReadDateYaml("care", us, S)
            /\ before = ReadDateYaml("care", us, S)
            /\ holidays_file = ReadDateYaml("holidays", HolidayKeys(us, S), S)
            /\ holidays = <<>>
            /\ public = {}
            /\ start = None
            /\ users = <<>>
            /\ week_counter = 0
            /\ current_month = 0
            /\ idx = 0
            /\ calls = 0
            /\ returned_dates = <<>>
            /\ other = IF "other" \in files
                       THEN ReadDateYaml("other", us, S) ELSE <<>>
            /\ other_before = other
            /\ other_counter = 0

Init == InitWith({"care", "holidays"})

\* main, lines 366-378: the care start is settled and guess_care_weeks called.
MainStart ==
    /\ pc = "main"
    /\ start' = CareStart(year, care_start)
    /\ pc' = "call"
    /\ calls' = 1
    /\ UNCHANGED <<first_care, dates, holidays, public, locals, inputs,
                   returned_dates, second>>

\* guess_care_weeks, line 118: the assertion on first_care fails.
GuessFail ==
    /\ pc = "call"
    /\ FirstCare(dates, first_care) = "AssertionError"
    /\ pc' = "failed"
    /\ UNCHANGED <<first_care, dates, holidays, public, start, locals, inputs,
                   calls, returned_dates, second>>

\* guess_care_weeks, lines 117-134: the rotation order and the counters.
GuessEnter ==
    /\ pc = "call"
    /\ FirstCare(dates, first_care) # "AssertionError"
    /\ users' = RotationOrder(dates, FirstCare(dates, first_care))
    /\ week_counter' = 0
    /\ current_month' = start[2]
    /\ idx' = 1
    /\ pc' = "scan"
    /\ UNCHANGED <<first_care, dates, holidays, public, start, inputs, calls,
                   returned_dates, second>>

\* guess_care_weeks, lines 140-147: one date of the inner loop.
ScanStep ==
    /\ pc = "scan"
    /\ idx <= Len(MonthDates(start[1], current_month))
    /\ LET r == LoopBody(dates, week_counter, users, start, current_month,
                         MonthDates(start[1], current_month)[idx])
       IN  /\ dates' = r.dates
           /\ week_counter' = r.week_counter
    /\ idx' = idx + 1
    /\ UNCHANGED <<pc, first_care, holidays, public, start, users,
                   current_month, inputs, calls, returned_dates>>

ScanDate == ScanStep /\ UNCHANGED second

\* The same step with the second collection scanned alongside: the same call
\* (same start, same first_care, same users) on another Care.
ScanDatePair ==
    /\ ScanStep
    /\ LET r == LoopBody(other, other_counter, users, start, current_month,
                         MonthDates(start[1], current_month)[idx])
       IN  /\ other' = r.dates
           /\ other_counter' = r.week_counter

\* guess_care_weeks, line 134: the outer loop moves to the next month.
NextMonth ==
    /\ pc = "scan"
    /\ idx > Len(MonthDates(start[1], current_month))
    /\ current_month < LastMonth
    /\ current_month' = current_month + 1
    /\ idx' = 1
    /\ UNCHANGED <<pc, first_care, dates, holidays, public, start, users,
                   week_counter, inputs, calls, returned_dates, second>>

\* guess_care_weeks: the outer loop ends and the call returns.
Return ==
    /\ pc = "scan"
    /\ idx > Len(MonthDates(start[1], current_month))
    /\ current_month = LastMonth
    /\ pc' = "returned"
    /\ returned_dates' = IF calls = 1 THEN dates ELSE returned_dates
    /\ UNCHANGED <<first_care, dates, holidays, public, start, locals, inputs,
                   calls, second>>

\* main, line 381 and Holidays.__init__: the public key is popped.
ReadHolidays ==
    /\ pc = "returned"
    /\ holidays' = SelectSeq(holidays_file, LAMBDA e : e.key # PublicKey)
    /\ public' = IF \E e \in Range(holidays_file) : e.key = PublicKey
                 THEN Item(holidays_file, PublicKey) ELSE {}
    /\ pc' = "done"
    /\ UNCHANGED <<first_care, dates, start, locals, inputs, calls,
                   returned_dates, second>>

\* A second call of guess_care_weeks on the same Care, with the same start
\* and any valid first_care.
CallAgain ==
    /\ pc = "returned"
    /\ calls = 1
    /\ \E fc \in Range(Users(dates)) : first_care' = fc
    /\ calls' = 2
    /\ pc' = "call"
    /\ UNCHANGED <<dates, holidays, public, start, locals, inputs,
                   returned_dates, second>>

Next ==
    \/ MainStart
    \/ GuessFail
    \/ GuessEnter
    \/ ScanDate
    \/ NextMonth
    \/ Return
    \/ ReadHolidays

Spec == Init /\ [][Next]_vars

\* main() followed by a second call on the same collection.
InitAgain == InitWith({"care"})

NextAgain == Next \/ CallAgain

SpecAgain == InitAgain /\ [][NextAgain]_vars

\* Two Care collections with the same users, given the same call.
InitPair == InitWith({"care", "other"})

NextPair ==
    \/ MainStart
    \/ GuessFail
    \/ GuessEnter
    \/ ScanDatePair
    \/ NextMonth
    \/ Return
    \/ ReadHolidays

SpecPair == InitPair /\ [][NextPair]_vars

\* ------------------------------------------------------------------ claims
\* The Saturdays and Sundays of each year of the model, computed once.
WeekendTable == [y \in Years |-> {d \in YearDates(y) : Weekday(d) \in {5, 6}}]

\* The Saturdays and Sundays d with start <= d <= December 31 of start's year.
ScopeWeekends ==
    {d \in WeekendTable[start[1]] : ToOrdinal(d) >= ToOrdinal(start)}

\* The positions of the users of ds that have date d.
Holders(ds, d) == {i \in 1..Len(ds) : d \in ds[i].val}

\* The dates the call has added to the user at position i.
AddedTo(i) == dates[i].val \ before[i].val

NoDouble(ds) ==
    \A i, j \in 1..Len(ds) : i # j => ds[i].val \cap ds[j].val = {}

Finished == pc \in {"returned", "done"}

\* Weeks run from Monday to Sunday; week 0 is the week of start.
WeekOf(d) ==
    ((ToOrdinal(d) - Weekday(d)) - (ToOrdinal(start) - Weekday(start))) \div 7

\* first_care (the first user when it is empty), then the other users in
\* their insertion order.
ExpectedOrder ==
    LET fc == IF first_care = "" THEN Users(before)[1] ELSE first_care
    IN  <<fc>> \o SelectSeq(Users(before), LAMBDA u : u # fc)

NextDay(d) ==
    IF d[3] < DaysInMonth(d[1], d[2]) THEN <<d[1], d[2], d[3] + 1>>
    ELSE IF d[2] < 12 THEN <<d[1], d[2] + 1, 1>>
    ELSE <<d[1] + 1, 1, 1>>

\* C1: after guess_care_weeks every Saturday and Sunday from start to
\* December 31 was in a user's set before the call or was added by the call to
\* exactly one user's set.
C1_Coverage ==
    Finished =>
        \A d \in ScopeWeekends :
            \/ Holders(before, d) # {}
            \/ Cardinality({i \in 1..Len(dates) : d \in AddedTo(i)}) = 1

\* A call from a Saturday in December, with two users or more, returned: one
\* weekend date was occupied before, another was added.
C1_Witness ==
    /\ pc = "returned"
    /\ Len(dates) >= 2
    /\ care_start # None
    /\ Weekday(start) = 5
    /\ \E d \in ScopeWeekends : Holders(before, d) # {}
    /\ \E d \in ScopeWeekends : Holders(before, d) = {} /\ Holders(dates, d) # {}

\* C2: with no date occupied before the call, the Saturday and the Sunday of
\* week k, counted from 0 at the week of start, both go to
\* rotation_order[k mod N].
C2_RotationFromStartWeek ==
    (Finished /\ \A i \in 1..Len(before) : before[i].val = {}) =>
        \A d \in ScopeWeekends :
            d \in Item(dates, ExpectedOrder[(WeekOf(d) % Len(dates)) + 1])

\* C3: when the weekend dates of start's week that are >= start are free
\* before the call, they are in first_care's set after it.
C3_FirstCareFirstWeekend ==
    Finished =>
        LET W == {d \in ScopeWeekends : WeekOf(d) = 0}
        IN  (\A d \in W : Holders(before, d) = {}) =>
                (\A d \in W : d \in Item(dates, ExpectedOrder[1]))

\* C4 as stated: a weekend date >= start that is in a user's set of the
\* Holidays collection of the run is added to no user's Care set.
C4_HolidayWeekendsSkipped ==
    pc = "done" =>
        \A k \in 1..Len(holidays) : \A d \in holidays[k].val :
            d \in ScopeWeekends => \A i \in 1..Len(dates) : d \notin AddedTo(i)

\* C4, amended: a date that is in some user's set of the Care collection
\* before the call is added by guess_care_weeks to no user's Care set.
C4_CareOccupiedSkipped ==
    \A j \in 1..Len(before) : \A d \in before[j].val :
        \A i \in 1..Len(dates) : d \notin AddedTo(i)

\* The run ended: a weekend date >= start was occupied in the Care collection
\* before the call, the holidays file has a date too, and the call added dates.
C4_Witness ==
    /\ pc = "done"
    /\ \E d \in ScopeWeekends : Holders(before, d) # {}
    /\ \E k \in 1..Len(holidays) : holidays[k].val # {}
    /\ dates # before

\* C5: the week counter does not depend on what was assigned, so two
\* collections with the same users given the same call, differing only in the
\* dates occupied before, have assigned every date free in both to the same
\* user when the calls return.
C5_SameAssignment ==
    /\ week_counter = other_counter
    /\ Finished =>
         \A i \in 1..Len(other) :
            \A d \in AddedTo(i) \cup (other[i].val \ other_before[i].val) :
                (Holders(before, d) = {} /\ Holders(other_before, d) = {})
                    => (d \in dates[i].val /\ d \in other[i].val)

\* Both calls returned, with three users: the Sunday of the first weekend was
\* occupied in one collection and free in the other, and later weekends were
\* assigned in both.
C5_Witness ==
    /\ pc = "returned"
    /\ Len(other) = 3
    /\ \E d \in ScopeWeekends :
         /\ Weekday(d) = 6
         /\ Holders(before, d) # {}
         /\ Holders(other_before, d) = {}
         /\ Holders(other, d) # {}
    /\ \E i \in 1..Len(other) :
         AddedTo(i) \cap (other[i].val \ other_before[i].val) # {}

\* C6: every user's set after the call contains the set before it, and the
\* users and their order are unchanged.
C6_MonotonicGrowth ==
    /\ Users(dates) = Users(before)
    /\ \A i \in 1..Len(before) : before[i].val \subseteq dates[i].val

\* The call returned and a user who had a date before it was given more.
C6_Witness ==
    /\ pc = "returned"
    /\ \E i \in 1..Len(before) : before[i].val # {} /\ AddedTo(i) # {}

\* C7: a non-empty first_care that is no user makes the call fail before any
\* change: the scan is never entered and every set is what it was.
C7_UnknownFirstCareFails ==
    (first_care # "" /\ first_care \notin Range(Users(before))) =>
        /\ pc \in {"main", "call", "failed"}
        /\ dates = before

\* The call failed on an unknown first_care, on a collection that has dates.
C7_Witness ==
    /\ pc = "failed"
    /\ first_care = Unknown
    /\ \E i \in 1..Len(before) : before[i].val # {}

\* C8: every date added is, when it is added, a Saturday or Sunday >= start
\* in no user's set; and when no date is in two sets before the call, no date
\* is in two sets at any point.
C8_NoDoubleBooking ==
    /\ [](NoDouble(before) => NoDouble(dates))
    /\ [][\A i \in 1..Len(dates) : \A d \in dates'[i].val \ dates[i].val :
            /\ Weekday(d) \in {5, 6}
            /\ ToOrdinal(d) >= ToOrdinal(start)
            /\ Holders(dates, d) = {}]_vars

\* During the scan: a date occupied before the call by the last of several
\* users has been passed, and dates were added.
C8_Witness ==
    /\ pc = "scan"
    /\ Len(dates) >= 2
    /\ NoDouble(before)
    /\ before[Len(before)].val # {}
    /\ week_counter >= 2
    /\ dates # before

C10_SecondCallAddsNothing ==
    calls = 2 => dates = returned_dates

\* The second call returned; its first_care is not the user who has the first
\* weekend, which was free before the first call.
C10_Witness ==
    /\ calls = 2
    /\ pc = "returned"
    /\ \E d \in Pool(start) :
         /\ Holders(before, d) = {}
         /\ \A i \in Holders(dates, d) : dates[i].key # users[1]

=============================================================================
